---------------------------- MODULE Spec2Model ----------------------------
(***************************************************************************)
(* Box covering and renormalisation engine of the fractalnetworks package. *)
(*                                                                         *)
(* greedyalgorithm.py      greedy colouring box covering                   *)
(* randomsequential.py     random sequential box covering                  *)
(* networkskeleton.py      skeleton (spanning forest by betweenness)       *)
(* boxrenormalisation.py   central distance, box assignment, contraction   *)
(*                         and the iterative driver                        *)
(*                                                                         *)
(* Every algorithm has its own specification over the shared variables;    *)
(* the variables an algorithm does not use keep their initial value.       *)
(***************************************************************************)
EXTENDS Integers, Sequences, FiniteSets, TLC

\* Largest number of nodes of an input graph.
MaxN == 3

\* Largest box diameter lB handed to a covering algorithm.
MaxLB == 3

\* Largest number of nodes of a graph handed to smallest_last.
MaxOrderN == 4

\* Largest number of nodes and of edges of a graph handed to find_skel.
MaxSkelN == 4
MaxSkelE == 4

\* Largest edge betweenness centrality value (the values are 1 .. MaxEbc).
MaxEbc == 2

\* The round number from which the model stops counting: iter_count only
\* names the output file, and the rounds from MaxIter on share one number.
MaxIter == 3

\* Python's None (an uncoloured node, an unset variable).
None == -1

\* float('inf'), the distance igraph reports between unreachable nodes: it is
\* larger than every finite distance and than every lB of the model.
Inf == MaxN + MaxLB + 2

--------------------------------------------------------------------------
(* Graphs: igraph.Graph with nodes 0..n-1 and undirected edges <<u, v>>,   *)
(* u <= v (u = v is a self-loop, which only an unsimplified graph has).    *)

Nodes(g) == 0 .. (g.n - 1)

SimpleEdges(n) == {e \in (0 .. (n - 1)) \X (0 .. (n - 1)) : e[1] < e[2]}

\* Every simple undirected graph with at most k nodes.
GraphsUpTo(k) == UNION {[n : {j}, E : SUBSET SimpleEdges(j)] : j \in 0 .. k}

\* The input graphs of the covering and renormalisation algorithms.
Graphs == GraphsUpTo(MaxN)

\* Graph.neighbors(v)
neighbors(g, v) ==
    {u \in Nodes(g) : <<u, v>> \in g.E \/ <<v, u>> \in g.E}

\* Breadth-first search from the set `seen`, whose last layer is `frontier`
\* at distance d from the source.
RECURSIVE bfs(_, _, _, _, _)
bfs(g, target, frontier, seen, d) ==
    IF target \in frontier THEN d
    ELSE LET next == (UNION {neighbors(g, v) : v \in frontier}) \ seen
         IN  IF next = {} THEN Inf
             ELSE bfs(g, target, next, seen \cup next, d + 1)

\* Graph.distances(source=u, target=v)[0][0]
distances(g, u, v) == bfs(g, v, {u}, {u}, 0)

\* The nodes within r steps of p other than p (mindist=1).
neighborhood_without_centre(g, p, r) ==
    {v \in Nodes(g) : v # p /\ distances(g, p, v) <= r}

\* Graph.neighborhood([p], order=r)[0]: the nodes within r steps of p.
neighborhood(g, p, r) == {v \in Nodes(g) : distances(g, p, v) <= r}

\* Graph.is_connected(): the null graph is not connected.
is_connected(g) ==
    /\ g.n > 0
    /\ \A v \in Nodes(g) : distances(g, 0, v) # Inf

\* The members of a sequence.
Range(s) == {s[i] : i \in 1 .. Len(s)}

\* The sequences that list every member of S exactly once.
Perms(S) ==
    {s \in [1 .. Cardinality(S) -> S] : \A i, j \in 1 .. Cardinality(S) : s[i] = s[j] => i = j}

\* The members of a set of integers in ascending order: [i for i in range(N)].
RECURSIVE Ascending(_)
Ascending(S) ==
    IF S = {} THEN <<>>
    ELSE LET m == CHOOSE x \in S : \A y \in S : x <= y
         IN  <<m>> \o Ascending(S \ {m})

\* max() and min() of a non-empty collection of integers.
Max(S) == CHOOSE x \in S : \A y \in S : y <= x
Min(S) == CHOOSE x \in S : \A y \in S : x <= y

--------------------------------------------------------------------------
VARIABLES
    pc,           \* the position of the running call, or the exception it raised
    entry,        \* the function the caller invoked
    G,            \* the input graph
    lB,           \* the box diameter
    \* greedyalgorithm.py
    node_order,   \* greedy_colouring: the nodes still to be coloured, in order
    dual_G,       \* the graph handed to greedy_colouring
    colouring,    \* greedy_colouring: node -> colour or None
    NB,           \* greedy_box_covering: the number of boxes
    nodes,        \* smallest_last: the node ids of the nodes left in H, by index
    ordering,     \* smallest_last: the ordering found so far
    \* networkskeleton.py
    ebcs,         \* find_skel: the edge betweenness centrality of every edge id
    edges_to_ebcs,\* find_skel: the sorted (edge, ebc) pairs still to be visited
    H,            \* find_skel: the skeleton under construction; smallest_last: the working copy
    \* randomsequential.py
    rB,           \* random_sequential: the radius of the boxes
    non_centres,  \* random_sequential: the nodes not yet tried as a centre
    covered,      \* random_sequential: the covered nodes
    uncovered,    \* random_sequential: the uncovered nodes
    picks,        \* random_sequential: the nodes p drawn so far, one per iteration
    \* randomsequential.py and boxrenormalisation.py
    centres,      \* the list of centres
    boxes,        \* the list of boxes (box id i is boxes[i + 1])
    \* boxrenormalisation.py
    dest_exists,  \* renormalise_iteratively: os.path.exists(save_path) at the call
    current_graph,\* renormalise_iteratively: the graph of the current round
    iter_count,   \* renormalise_iteratively: the number of the current round
    central_distance,   \* node -> distance to the nearest centre
    sorted_non_centres, \* assign_nodes_to_boxes: the non-centres still to be assigned
    nodes_to_boxes,     \* node -> box id or None
    new_graph,    \* the renormalised graph of the round
    files         \* the numbers i of the files renormalised_iter_<i>.gml written under save_path

greedyVars == <<node_order, dual_G, colouring, NB>>
orderVars == <<nodes, ordering>>
skelVars == <<ebcs, edges_to_ebcs, H>>
rsVars == <<rB, non_centres, covered, uncovered, picks>>
boxVars == <<centres, boxes>>
renVars == <<dest_exists, current_graph, iter_count, central_distance,
             sorted_non_centres, nodes_to_boxes, new_graph, files>>

vars == <<pc, entry, G, lB, greedyVars, orderVars, skelVars, rsVars, boxVars, renVars>>

\* The graph with no node.
NullGraph == [n |-> 0, E |-> {}]

\* The initial value of the variables an algorithm does not use.
IdleGreedy == node_order = <<>> /\ dual_G = NullGraph /\ colouring = <<>> /\ NB = None
IdleOrder == nodes = <<>> /\ ordering = <<>>
IdleSkel == ebcs = <<>> /\ edges_to_ebcs = <<>> /\ H = NullGraph
IdleRS == rB = None /\ non_centres = {} /\ covered = {} /\ uncovered = {} /\ picks = <<>>
IdleBoxes == centres = <<>> /\ boxes = <<>>
IdleRen ==
    /\ dest_exists = FALSE /\ current_graph = NullGraph /\ iter_count = 0
    /\ central_distance = <<>> /\ sorted_non_centres = <<>> /\ nodes_to_boxes = <<>>
    /\ new_graph = NullGraph /\ files = {}

--------------------------------------------------------------------------
(* greedyalgorithm.py                                                      *)

\* make_dual_graph with the threshold test off by one (<= lB for < lB).
dual_matrix_le(graph, d) ==
    [u \in Nodes(graph) |->
        [v \in Nodes(graph) |->
            LET dist == distances(graph, u, v)
                low  == IF dist <= d THEN 0 ELSE dist
            IN  IF low > 0 THEN 1 ELSE low]]

\* make_dual_graph with no entry for a pair without a path.
dual_matrix_finite(graph, d) ==
    [u \in Nodes(graph) |->
        [v \in Nodes(graph) |->
            LET dist == distances(graph, u, v)
                low  == IF dist < d \/ dist = Inf THEN 0 ELSE dist
            IN  IF low > 0 THEN 1 ELSE low]]

\* make_dual_graph: the thresholded distance matrix, 1 where the distance is
\* at least lB and 0 elsewhere, read as an adjacency matrix.
dual_matrix(graph, d) ==
    [u \in Nodes(graph) |->
        [v \in Nodes(graph) |->
            LET dist == distances(graph, u, v)
                low  == IF dist < d THEN 0 ELSE dist
            IN  IF low > 0 THEN 1 ELSE low]]

make_dual_graph(graph, d) ==
    LET m == dual_matrix(graph, d)
    IN  [n |-> graph.n,
         E |-> {e \in SimpleEdges(graph.n) : m[e[1]][e[2]] # 0 \/ m[e[2]][e[1]] # 0}]

\* The colours of the already coloured neighbours of a node.
forbidden_colours(g, col, node) ==
    {col[nb] : nb \in {x \in neighbors(g, node) : col[x] # None}}

\* A first-fit that looks only at the smallest forbidden colour.
choose_colour_min_plus_one(forbidden) ==
    IF forbidden = {} THEN 0
    ELSE Min(forbidden) + 1

\* A colour that is always a new one, the largest forbidden colour plus one.
choose_colour_max_plus_one(forbidden) ==
    IF forbidden = {} THEN 0
    ELSE Max(forbidden) + 1

\* The colour a node gets: 0 without forbidden colours, else the smallest of
\* 0 .. max(forbidden)+1 that is not forbidden.
choose_colour(forbidden) ==
    IF forbidden = {} THEN 0
    ELSE Min((0 .. (Max(forbidden) + 1)) \ forbidden)

\* The node orders a caller may pass: no order (None), or a permutation.
NoOrder == <<>>
Orders(g) == {NoOrder} \cup Perms(Nodes(g))

notGreedy == <<orderVars, skelVars, rsVars, boxVars, renVars>>

InitGreedy ==
    /\ G \in Graphs
    /\ lB \in -1 .. MaxLB
    /\ node_order \in Orders(G)
    /\ entry \in {"greedy_box_covering", "greedy_colouring"}
    /\ pc = entry
    /\ dual_G = G
    /\ colouring = <<>>
    /\ NB = None
    /\ IdleOrder /\ IdleSkel /\ IdleRS /\ IdleBoxes /\ IdleRen

\* greedy_box_covering, line 102: build the dual graph.
MakeDualGraph ==
    /\ pc = "greedy_box_covering"
    /\ dual_G' = make_dual_graph(G, lB)
    /\ pc' = "greedy_colouring"
    /\ UNCHANGED <<entry, G, lB, node_order, colouring, NB, notGreedy>>

\* greedy_colouring, lines 132-141: the empty colouring and the default order.
ColouringStart ==
    /\ pc = "greedy_colouring"
    /\ colouring' = [v \in Nodes(dual_G) |-> None]
    /\ node_order' = IF node_order = NoOrder THEN Ascending(Nodes(dual_G)) ELSE node_order
    /\ pc' = "colour_loop"
    /\ UNCHANGED <<entry, G, lB, dual_G, NB, notGreedy>>

\* greedy_colouring, lines 144-168: one iteration of the loop over node_order.
ColourNode ==
    /\ pc = "colour_loop"
    /\ node_order # <<>>
    /\ LET node == Head(node_order)
       IN  colouring' = [colouring EXCEPT
                ![node] = choose_colour(forbidden_colours(dual_G, colouring, node))]
    /\ node_order' = Tail(node_order)
    /\ UNCHANGED <<pc, entry, G, lB, dual_G, NB, notGreedy>>

\* greedy_colouring, line 171: return to the caller.
ColouringReturn ==
    /\ pc = "colour_loop"
    /\ node_order = <<>>
    /\ pc' = IF entry = "greedy_box_covering" THEN "count_boxes" ELSE "done"
    /\ UNCHANGED <<entry, G, lB, node_order, dual_G, colouring, NB, notGreedy>>

\* A box count that is the largest colour itself.
count_boxes_without_zero(col, g) == Max({col[v] : v \in Nodes(g)})

\* Line 108: NB = max(colouring.values()) + 1.
count_boxes(col, g) == Max({col[v] : v \in Nodes(g)}) + 1

\* greedy_box_covering, lines 108-111: max() of no colours raises ValueError.
CountBoxes ==
    /\ pc = "count_boxes"
    /\ IF Nodes(G) = {}
       THEN /\ pc' = "ValueError"
            /\ NB' = NB
       ELSE /\ pc' = "done"
            /\ NB' = count_boxes(colouring, G)
    /\ UNCHANGED <<entry, G, lB, node_order, dual_G, colouring, notGreedy>>

NextGreedy ==
    \/ MakeDualGraph
    \/ ColouringStart
    \/ ColourNode
    \/ ColouringReturn
    \/ CountBoxes

SpecGreedy == InitGreedy /\ [][NextGreedy]_vars

\* greedy_colouring has returned.
ColouringComplete == pc \in {"count_boxes", "done", "ValueError"}

\* C1: when greedy_colouring returns, every node of the coloured graph has a
\* non-negative integer colour and the two ends of every edge of that graph
\* have different colours.
C1_ProperColouring ==
    ColouringComplete =>
        /\ DOMAIN colouring = Nodes(dual_G)
        /\ \A v \in Nodes(dual_G) : colouring[v] \in Nat
        /\ \A e \in dual_G.E : colouring[e[1]] # colouring[e[2]]

\* greedy_colouring was called on a triangle with an order of its own and
\* returned three colours.
C1_Witness ==
    /\ pc = "done" /\ entry = "greedy_colouring"
    /\ dual_G.n = 3 /\ Cardinality(dual_G.E) = 3
    /\ colouring[0] = 2 /\ colouring[1] = 0 /\ colouring[2] = 1

\* C2: when greedy_box_covering returns, two different nodes with the same
\* box (colour) are at distance strictly less than lB in G; unreachable
\* pairs (distance Inf) never share a box.
C2_BoxDiameter ==
    (pc = "done" /\ entry = "greedy_box_covering") =>
        \A u, v \in Nodes(G) :
            (u # v /\ colouring[u] = colouring[v]) => distances(G, u, v) < lB

\* greedy_box_covering returned a box with two adjacent nodes beside a
\* node of another component in a box of its own.
C2_Witness ==
    /\ pc = "done" /\ entry = "greedy_box_covering"
    /\ \E u, v \in Nodes(G) : colouring[u] = colouring[v] /\ distances(G, u, v) = 1
    /\ \E u, v \in Nodes(G) : colouring[u] # colouring[v] /\ distances(G, u, v) = Inf
    /\ NB = 2

--------------------------------------------------------------------------
(* greedyalgorithm.py: smallest_last                                       *)

\* Graph.degree(): the number of edge ends at the node of each index.
degree(h) ==
    [i \in 1 .. h.n |->
        Cardinality({e \in h.E : e[1] = i - 1}) + Cardinality({e \in h.E : e[2] = i - 1})]

\* The last index of the least value.
argmin_last(s) ==
    Max({i \in 1 .. Len(s) : \A j \in 1 .. Len(s) : s[i] <= s[j]}) - 1

\* np.argmin: the first index (from 0) of the least value.
argmin(s) ==
    Min({i \in 1 .. Len(s) : \A j \in 1 .. Len(s) : s[i] <= s[j]}) - 1

\* list.pop(i): the list without the element of index i (from 0).
pop(s, i) == [k \in 1 .. (Len(s) - 1) |-> IF k <= i THEN s[k] ELSE s[k + 1]]

\* Graph.delete_vertices(i): the node of index i and its edges go, and the
\* nodes of a larger index move down by one.
delete_vertices(h, i) ==
    LET down(x) == IF x > i THEN x - 1 ELSE x
    IN  [n |-> h.n - 1,
         E |-> {<<down(e[1]), down(e[2])>> : e \in {x \in h.E : x[1] # i /\ x[2] # i}}]

\* A working graph that is the graph of the caller itself.
same_graph(g, h) == h

\* Line 64, H = G.copy(): what is done to the copy h leaves the graph g of
\* the caller as it is.
copy_keeps(g, h) == g

\* The graphs handed to smallest_last.
OrderGraphs == GraphsUpTo(MaxOrderN)

notOrder == <<lB, greedyVars, rsVars, boxVars, renVars>>

InitOrder ==
    /\ G \in OrderGraphs
    /\ entry = "smallest_last"
    /\ pc = entry
    /\ lB = 0
    /\ nodes = <<>> /\ ordering = <<>>
    /\ IdleGreedy /\ IdleSkel /\ IdleRS /\ IdleBoxes /\ IdleRen

\* smallest_last, lines 55-64: the node list, the empty ordering and the
\* working copy.
SmallestLastStart ==
    /\ pc = "smallest_last"
    /\ nodes' = Ascending(Nodes(G))
    /\ ordering' = <<>>
    /\ H' = G
    /\ pc' = "order_loop"
    /\ UNCHANGED <<entry, G, ebcs, edges_to_ebcs, notOrder>>

\* smallest_last, lines 67-77: one iteration of the loop while
\* len(ordering) < N.
SmallestLastStep ==
    /\ pc = "order_loop"
    /\ Len(ordering) < G.n
    /\ LET min_i == argmin(degree(H))
           node == nodes[min_i + 1]
       IN  /\ ordering' = <<node>> \o ordering
           /\ nodes' = pop(nodes, min_i)
           /\ H' = delete_vertices(H, min_i)
    /\ G' = copy_keeps(G, H')
    /\ UNCHANGED <<pc, entry, ebcs, edges_to_ebcs, notOrder>>

\* smallest_last, line 79: return the ordering.
SmallestLastReturn ==
    /\ pc = "order_loop"
    /\ Len(ordering) >= G.n
    /\ pc' = "done"
    /\ UNCHANGED <<entry, G, orderVars, skelVars, notOrder>>

NextOrder ==
    \/ SmallestLastStart
    \/ SmallestLastStep
    \/ SmallestLastReturn

SpecOrder == InitOrder /\ [][NextOrder]_vars

--------------------------------------------------------------------------
(* networkskeleton.py                                                      *)

\* G.es(): the edges by edge id.
RECURSIVE es(_)
es(E) ==
    IF E = {} THEN <<>>
    ELSE LET e == CHOOSE x \in E : \A y \in E :
                      x[1] < y[1] \/ (x[1] = y[1] /\ x[2] <= y[2])
         IN  <<e>> \o es(E \ {e})

\* Line 59: the list of (edge, edge betweenness centrality) pairs.
pair_edges(g, b) == [i \in 1 .. Len(es(g.E)) |-> <<es(g.E)[i], b[i]>>]

\* list.sort(key=ebc, reverse=True): stable, so pairs of equal betweenness
\* keep their order.
RECURSIVE insert_desc(_, _)
insert_desc(x, s) ==
    IF s = <<>> THEN <<x>>
    ELSE IF Head(s)[2] <= x[2] THEN <<x>> \o s
    ELSE <<Head(s)>> \o insert_desc(x, Tail(s))

\* An edge list left in the order of the edge ids.
sort_skipped(s) == s

RECURSIVE sort_desc(_)
sort_desc(s) ==
    IF s = <<>> THEN <<>>
    ELSE insert_desc(Head(s), sort_desc(Tail(s)))

\* An edge test that accepts every edge.
no_path_unchecked(h, edge) == TRUE

\* Lines 71-72: get_shortest_paths finds no path between the ends of the edge.
no_path(h, edge) == distances(h, edge[1], edge[2]) = Inf

\* An exit test that asks for a neighbour of every node only.
no_isolated_node(h) == h.n > 0 /\ \A v \in Nodes(h) : neighbors(h, v) # {}

\* Lines 76-77: if H.is_connected(): return H.
early_exit(h) == is_connected(h)

\* The graphs handed to find_skel.
SkelGraphs == {g \in GraphsUpTo(MaxSkelN) : Cardinality(g.E) <= MaxSkelE}

notSkel == <<lB, greedyVars, orderVars, rsVars, boxVars, renVars>>

InitSkel ==
    /\ G \in SkelGraphs
    /\ ebcs \in [1 .. Cardinality(G.E) -> 1 .. MaxEbc]
    /\ entry = "find_skel"
    /\ pc = entry
    /\ lB = 0
    /\ edges_to_ebcs = <<>> /\ H = NullGraph
    /\ IdleGreedy /\ IdleOrder /\ IdleRS /\ IdleBoxes /\ IdleRen

\* find_skel, lines 55-66: the sorted edge list and the edgeless copy of G
\* (H = G.copy(), line 65).
SkelStart ==
    /\ pc = "find_skel"
    /\ edges_to_ebcs' = sort_desc(pair_edges(G, ebcs))
    /\ H' = [n |-> G.n, E |-> {}]
    /\ G' = copy_keeps(G, H')
    /\ pc' = "skel_loop"
    /\ UNCHANGED <<entry, ebcs, notSkel>>

\* find_skel, lines 69-77: visit the next edge; return when H is connected.
SkelVisit ==
    /\ pc = "skel_loop"
    /\ edges_to_ebcs # <<>>
    /\ LET edge == Head(edges_to_ebcs)[1]
           H1 == IF no_path(H, edge) THEN [H EXCEPT !.E = @ \cup {edge}] ELSE H
       IN  /\ H' = H1
           /\ pc' = IF early_exit(H1) THEN "done" ELSE pc
    /\ edges_to_ebcs' = Tail(edges_to_ebcs)
    /\ G' = copy_keeps(G, H')
    /\ UNCHANGED <<entry, ebcs, notSkel>>

\* find_skel, line 80: every edge was visited.
SkelReturn ==
    /\ pc = "skel_loop"
    /\ edges_to_ebcs = <<>>
    /\ pc' = "done"
    /\ UNCHANGED <<entry, G, ebcs, edges_to_ebcs, H, notSkel>>

NextSkel ==
    \/ SkelStart
    \/ SkelVisit
    \/ SkelReturn

SpecSkel == InitSkel /\ [][NextSkel]_vars

\* The nodes reachable from v, and the connected components of a graph.
Reach(g, v) == {u \in Nodes(g) : distances(g, v, u) # Inf}
Components(g) == {Reach(g, v) : v \in Nodes(g)}

\* A loop-free graph without a cycle has n - c edges, c its components.
Acyclic(g) ==
    /\ \A e \in g.E : e[1] # e[2]
    /\ Cardinality(g.E) + Cardinality(Components(g)) = g.n

\* C3: the graph find_skel returns is a spanning forest of G: the nodes of G,
\* only edges of G, no cycle, and the connected components of G. For a
\* connected G it is connected with N - 1 edges, and it is a tree exactly
\* when G is connected.
C3_SpanningForest ==
    pc = "done" =>
        /\ H.n = G.n
        /\ H.E \subseteq G.E
        /\ Acyclic(H)
        /\ \A u, v \in Nodes(G) : (distances(H, u, v) # Inf) <=> (distances(G, u, v) # Inf)
        /\ is_connected(G) => (is_connected(H) /\ Cardinality(H.E) = G.n - 1)
        /\ (is_connected(H) /\ Acyclic(H)) <=> is_connected(G)

\* find_skel returned for a disconnected graph with a cycle, having turned
\* down the edge that closes the cycle.
C3_Witness ==
    /\ pc = "done"
    /\ G.n = 4 /\ Cardinality(G.E) = 3 /\ ~is_connected(G)
    /\ Cardinality(H.E) = 2

--------------------------------------------------------------------------
(* randomsequential.py                                                     *)

\* Half of x rounded up.
ceil_half(x) == (x + 1) \div 2

\* Half of x rounded down, Python's x // 2.
floor_half(x) == x \div 2

\* int(x / 2): Python's true division followed by truncation towards zero.
int_half(x) == IF x >= 0 THEN x \div 2 ELSE -((-x) \div 2)

\* The nodes a candidate covers, forgetting which nodes are covered already.
newly_covered_all(g, p, r, unc) == neighborhood(g, p, r)

\* Line 73: the uncovered nodes within a radius of rB from the candidate p.
newly_covered(g, p, r, unc) == neighborhood(g, p, r) \cap unc

\* A candidate that is dropped only when it became a centre.
remove_candidate_if_centre(cands, p, newly) == IF newly # {} THEN cands \ {p} ELSE cands

\* Line 85: non_centres.remove(p).
remove_candidate(cands, p, newly) == cands \ {p}

notRS == <<greedyVars, orderVars, skelVars, renVars>>

InitRS ==
    /\ G \in Graphs
    /\ lB \in -1 .. MaxLB
    /\ entry = "random_sequential"
    /\ pc = entry
    /\ IdleGreedy /\ IdleOrder /\ IdleSkel /\ IdleRS /\ IdleBoxes /\ IdleRen

\* random_sequential, lines 55-66: the radius and the initial lists.
RSStart ==
    /\ pc = "random_sequential"
    /\ rB' = int_half(lB - 1)
    /\ centres' = <<>>
    /\ non_centres' = Nodes(G)
    /\ covered' = {}
    /\ uncovered' = Nodes(G)
    /\ boxes' = <<>>
    /\ pc' = "rs_loop"
    /\ UNCHANGED <<entry, G, lB, picks, notRS>>

\* random_sequential, lines 69-85: one iteration of the loop with the random
\* candidate p. random.choice of an empty list raises IndexError; igraph
\* rejects a negative neighbourhood order.
RSIterate ==
    /\ pc = "rs_loop"
    /\ Cardinality(covered) < G.n
    /\ IF non_centres = {}
       THEN /\ pc' = "IndexError"
            /\ UNCHANGED <<picks, non_centres, covered, uncovered, centres, boxes>>
       ELSE \E p \in non_centres :
            /\ picks' = Append(picks, p)
            /\ IF rB < 0
               THEN /\ pc' = "InternalError"
                    /\ UNCHANGED <<non_centres, covered, uncovered, centres, boxes>>
               ELSE LET newly == newly_covered(G, p, rB, uncovered)
                    IN  /\ IF newly # {}
                           THEN /\ boxes' = Append(boxes, newly)
                                /\ centres' = Append(centres, p)
                                /\ covered' = covered \cup newly
                                /\ uncovered' = uncovered \ newly
                           ELSE UNCHANGED <<boxes, centres, covered, uncovered>>
                        /\ non_centres' = remove_candidate(non_centres, p, newly)
                        /\ pc' = pc
    /\ UNCHANGED <<entry, G, lB, rB, notRS>>

\* random_sequential, line 88: every node is covered.
RSReturn ==
    /\ pc = "rs_loop"
    /\ ~(Cardinality(covered) < G.n)
    /\ pc' = "done"
    /\ UNCHANGED <<entry, G, lB, rsVars, boxVars, notRS>>

NextRS ==
    \/ RSStart
    \/ RSIterate
    \/ RSReturn

SpecRS == InitRS /\ [][NextRS]_vars

\* C7: when random_sequential returns for lB >= 1, centres and boxes have the
\* same length, the boxes are non-empty, pairwise disjoint and cover every
\* node, the centres are pairwise distinct, and every node of boxes[i] is
\* within floor((lB-1)/2) of centres[i].
C7_Partition ==
    (pc = "done" /\ lB >= 1) =>
        /\ Len(centres) = Len(boxes)
        /\ \A i \in 1 .. Len(boxes) : boxes[i] # {}
        /\ \A i, j \in 1 .. Len(boxes) : i # j => boxes[i] \cap boxes[j] = {}
        /\ UNION {boxes[i] : i \in 1 .. Len(boxes)} = Nodes(G)
        /\ \A i, j \in 1 .. Len(centres) : i # j => centres[i] # centres[j]
        /\ \A i \in 1 .. Len(boxes) : \A v \in boxes[i] :
               distances(G, centres[i], v) <= (lB - 1) \div 2

\* random_sequential returned two boxes for radius 1, one of them with two
\* nodes, having drawn an already covered candidate in between.
C7_Witness ==
    /\ pc = "done" /\ lB = 3
    /\ Len(boxes) = 2 /\ Cardinality(boxes[1]) = 2
    /\ Len(picks) = 3

\* C8: with a radius r >= 0 the loop makes at most N iterations: every
\* iteration draws a node that was never drawn before, every uncovered node is
\* still a candidate, so a draw never finds the candidate list empty and no
\* exception is raised.
C8_BoundedIterations ==
    (pc # "random_sequential" /\ rB >= 0) =>
        /\ Len(picks) <= G.n
        /\ \A i, j \in 1 .. Len(picks) : i # j => picks[i] # picks[j]
        /\ Len(picks) + Cardinality(non_centres) = G.n
        /\ uncovered \subseteq non_centres
        /\ uncovered = Nodes(G) \ covered
        /\ pc \in {"rs_loop", "done"}
        /\ (pc = "rs_loop" /\ Cardinality(covered) < G.n) => non_centres # {}

\* The loop ran N = 3 iterations, the last of which drew the last candidate
\* and covered the last uncovered node.
C8_Witness ==
    /\ pc = "done" /\ rB = 0 /\ G.n = 3
    /\ Len(picks) = 3 /\ non_centres = {}

--------------------------------------------------------------------------
(* boxrenormalisation.py                                                   *)

\* A distance comparison that keeps the larger value.
shorter_reversed(shortest_path_len, path_len) ==
    IF shortest_path_len = None \/ shortest_path_len < path_len
    THEN path_len ELSE shortest_path_len

\* Lines 84-85: path_len replaces shortest_path_len when that is unset (None)
\* or larger.
shorter(shortest_path_len, path_len) ==
    IF shortest_path_len = None \/ shortest_path_len > path_len
    THEN path_len ELSE shortest_path_len

\* Lines 78-85: the loop over the nodes u (by index) that are centres.
RECURSIVE scan_centres(_, _, _, _, _)
scan_centres(g, v, us, cs, shortest_path_len) ==
    IF us = <<>> THEN shortest_path_len
    ELSE scan_centres(g, v, Tail(us), cs,
             IF Head(us) \in cs
             THEN shorter(shortest_path_len, distances(g, v, Head(us)))
             ELSE shortest_path_len)

\* A central distance that starts from 0 where the code starts from None.
find_central_distance_from_zero(g, cs) ==
    [v \in Nodes(g) |->
        IF v \in Range(cs) THEN 0
        ELSE scan_centres(g, v, Ascending(Nodes(g)), Range(cs), 0)]

\* find_central_distance: None marks a node for which line 88 subscripts None.
find_central_distance(g, cs) ==
    [v \in Nodes(g) |->
        IF v \in Range(cs) THEN 0
        ELSE scan_centres(g, v, Ascending(Nodes(g)), Range(cs), None)]

\* sorted(items, key=itemgetter(1)): stable, so nodes of equal central
\* distance keep their index order.
RECURSIVE insert_asc(_, _)
insert_asc(x, s) ==
    IF s = <<>> THEN <<x>>
    ELSE IF Head(s)[2] >= x[2] THEN <<x>> \o s
    ELSE <<Head(s)>> \o insert_asc(x, Tail(s))

RECURSIVE sort_asc(_)
sort_asc(s) ==
    IF s = <<>> THEN <<>>
    ELSE insert_asc(Head(s), sort_asc(Tail(s)))

\* Lines 119-121: the nodes of the sorted items that are not centres.
RECURSIVE drop_centres(_, _)
drop_centres(s, cs) ==
    IF s = <<>> THEN <<>>
    ELSE IF Head(s)[1] \in cs THEN drop_centres(Tail(s), cs)
    ELSE <<Head(s)[1]>> \o drop_centres(Tail(s), cs)

\* Lines 114-121: the non-centres in order of increasing central distance.
sort_non_centres(g, cs, cd) ==
    drop_centres(sort_asc([i \in 1 .. g.n |-> <<i - 1, cd[i - 1]>>]), Range(cs))

\* Box ids that count the centres from the end of the list.
centre_boxes_from_end(g, cs) ==
    [v \in Nodes(g) |->
        IF v \in Range(cs)
        THEN Len(cs) - Max({i \in 1 .. Len(cs) : cs[i] = v})
        ELSE None]

\* Lines 123-127: the i-th centre gets box id i (from 0).
centre_boxes(g, cs) ==
    [v \in Nodes(g) |->
        IF v \in Range(cs)
        THEN Max({i \in 1 .. Len(cs) : cs[i] = v}) - 1
        ELSE None]

\* The nodes of smaller central distance, neighbours or not.
lower_nodes(g, cd, node) == {nb \in Nodes(g) : cd[node] > cd[nb]}

\* Neighbours whose central distance is not larger.
lower_neighbours_or_equal(g, cd, node) == {nb \in neighbors(g, node) : cd[node] >= cd[nb]}

\* Lines 134-135: the neighbours with central distance strictly less than
\* that of the node.
lower_neighbours(g, cd, node) == {nb \in neighbors(g, node) : cd[node] > cd[nb]}

\* A list with one box per node of the graph, not one per centre.
find_boxes_per_node(n2b, cs) ==
    [i \in 1 .. Cardinality(DOMAIN n2b) |-> {v \in DOMAIN n2b : n2b[v] = i - 1}]

\* find_boxes: box id -> the nodes of the box.
find_boxes(n2b, cs) == [i \in 1 .. Len(cs) |-> {v \in DOMAIN n2b : n2b[v] = i - 1}]

\* A simplification that keeps an edge only when it runs from the lower to
\* the higher box id.
simplify_forward_only(added) == {e \in Range(added) : e[1] < e[2]}

\* A simplification that collapses parallel edges but keeps the self-loops.
simplify_keep_loops(added) ==
    {IF e[1] <= e[2] THEN e ELSE <<e[2], e[1]>> : e \in Range(added)}

\* Graph.simplify(): no self-loop, one edge for parallel edges.
simplify(added) ==
    {IF e[1] <= e[2] THEN e ELSE <<e[2], e[1]>> : e \in {x \in Range(added) : x[1] # x[2]}}

\* renormalise_graph: one supernode per box, one edge per edge of G (lines
\* 208-218), then simplified.
renormalise_graph(g, bxs, n2b) ==
    LET edges == es(g.E)
        added == [i \in 1 .. Len(edges) |-> <<n2b[edges[i][1]], n2b[edges[i][2]]>>]
    IN  [n |-> Len(bxs), E |-> simplify(added)]

\* export_to_gephi (utilities.py): writes the graph g to the file of round i.
export_to_gephi(fs, i, g) == fs \cup {i}

\* A loop test that lets a single node through.
loop_condition_ge(g) == g.n >= 1

\* Line 342: while current_graph.vcount() > 1.
loop_condition(g) == g.n > 1

\* What method(G, lB) may return: a list of distinct nodes. The contract of a
\* centre selection is a non-empty list from which every node is reachable.
CentreLists(g) == UNION {Perms(S) : S \in SUBSET Nodes(g)}

MeetsContract(g, cs) ==
    /\ cs # <<>>
    /\ \A v \in Nodes(g) : \E c \in Range(cs) : distances(g, v, c) # Inf

notRen == <<lB, greedyVars, orderVars, skelVars, rsVars>>

InitDriver ==
    /\ G \in Graphs
    /\ dest_exists \in BOOLEAN
    /\ entry = "renormalise_iteratively"
    /\ pc = entry
    /\ lB = 0
    /\ current_graph = NullGraph /\ iter_count = 0
    /\ central_distance = <<>> /\ sorted_non_centres = <<>> /\ nodes_to_boxes = <<>>
    /\ new_graph = NullGraph /\ files = {}
    /\ IdleGreedy /\ IdleOrder /\ IdleSkel /\ IdleRS /\ IdleBoxes

\* A folder test that never finds the folder taken.
destination_free_always(exists) == TRUE

\* Line 329: if not os.path.exists(save_path).
destination_free(exists) == ~exists

\* renormalise_iteratively, lines 320-339: an existing folder raises
\* ValueError, else the folder is made and the loop starts with G.
DriverStart ==
    /\ pc = "renormalise_iteratively"
    /\ IF ~destination_free(dest_exists)
       THEN /\ pc' = "ValueError"
            /\ UNCHANGED <<current_graph, iter_count>>
       ELSE /\ current_graph' = G
            /\ iter_count' = 1
            /\ pc' = "while"
    /\ UNCHANGED <<entry, G, dest_exists, central_distance, sorted_non_centres,
                   nodes_to_boxes, new_graph, files, boxVars, notRen>>

\* renormalise_iteratively, line 342: the loop test.
WhileTest ==
    /\ pc = "while"
    /\ pc' = IF loop_condition(current_graph) THEN "method" ELSE "done"
    /\ UNCHANGED <<entry, G, renVars, boxVars, notRen>>

\* find_boxes_and_renormalise_iteration, line 255: centres = method(G, lB).
\* The strategy is a parameter: it returns a list or raises, and what it
\* raises leaves the round at once.
SelectCentres ==
    /\ pc = "method"
    /\ \/ /\ centres' \in CentreLists(current_graph)
          /\ pc' = "find_central_distance"
       \/ /\ centres' = centres
          /\ pc' = "Exception"
    /\ UNCHANGED <<entry, G, renVars, boxes, notRen>>

\* Line 258, find_central_distance: without a centre, line 88 raises TypeError.
FindCentralDistance ==
    /\ pc = "find_central_distance"
    /\ LET cd == find_central_distance(current_graph, centres)
       IN  IF \E v \in Nodes(current_graph) : cd[v] = None
           THEN /\ pc' = "TypeError"
                /\ UNCHANGED central_distance
           ELSE /\ pc' = "assign_nodes_to_boxes"
                /\ central_distance' = cd
    /\ UNCHANGED <<entry, G, dest_exists, current_graph, iter_count, sorted_non_centres,
                   nodes_to_boxes, new_graph, files, boxVars, notRen>>

\* Line 261, assign_nodes_to_boxes, lines 111-127: the sorted non-centres and
\* the boxes of the centres.
AssignStart ==
    /\ pc = "assign_nodes_to_boxes"
    /\ sorted_non_centres' = sort_non_centres(current_graph, centres, central_distance)
    /\ nodes_to_boxes' = centre_boxes(current_graph, centres)
    /\ pc' = "assign_loop"
    /\ UNCHANGED <<entry, G, dest_exists, current_graph, iter_count, central_distance,
                   new_graph, files, boxVars, notRen>>

\* assign_nodes_to_boxes, lines 130-139: the next non-centre gets the box of a
\* random neighbour of smaller central distance. A neighbour without a box
\* raises KeyError, no such neighbour makes random.choice raise IndexError.
AssignNode ==
    /\ pc = "assign_loop"
    /\ sorted_non_centres # <<>>
    /\ LET node == Head(sorted_non_centres)
           lower == lower_neighbours(current_graph, central_distance, node)
       IN  IF \E nb \in lower : nodes_to_boxes[nb] = None
           THEN /\ pc' = "KeyError"
                /\ UNCHANGED <<sorted_non_centres, nodes_to_boxes>>
           ELSE IF lower = {}
           THEN /\ pc' = "IndexError"
                /\ UNCHANGED <<sorted_non_centres, nodes_to_boxes>>
           ELSE /\ \E nb \in lower :
                    nodes_to_boxes' = [nodes_to_boxes EXCEPT ![node] = nodes_to_boxes[nb]]
                /\ sorted_non_centres' = Tail(sorted_non_centres)
                /\ pc' = pc
    /\ UNCHANGED <<entry, G, dest_exists, current_graph, iter_count, central_distance,
                   new_graph, files, boxVars, notRen>>

\* Lines 264-284: assign_nodes_to_boxes has returned; find_boxes and
\* renormalise_graph.
Renormalise ==
    /\ pc = "assign_loop"
    /\ sorted_non_centres = <<>>
    /\ LET bxs == find_boxes(nodes_to_boxes, centres)
       IN  /\ boxes' = bxs
           /\ new_graph' = renormalise_graph(current_graph, bxs, nodes_to_boxes)
    /\ pc' = "export"
    /\ UNCHANGED <<entry, G, dest_exists, current_graph, iter_count, central_distance,
                   sorted_non_centres, nodes_to_boxes, files, centres, notRen>>

\* A file name that counts the rounds from 0.
renormalised_file_path_from_zero(i) == i - 1

\* Line 282: the file of round i is renormalised_iter_<i>.gml; a file is
\* named by its number.
renormalised_file_path(i) == i

\* Lines 289-301: the renormalised graph is written to renormalised_iter_<i>
\* and returned; the locals of the round are gone.
Export ==
    /\ pc = "export"
    /\ files' = export_to_gephi(files, renormalised_file_path(iter_count), new_graph)
    /\ centres' = <<>> /\ boxes' = <<>>
    /\ central_distance' = <<>> /\ sorted_non_centres' = <<>> /\ nodes_to_boxes' = <<>>
    /\ pc' = "update"
    /\ UNCHANGED <<entry, G, dest_exists, current_graph, iter_count, new_graph, notRen>>

\* A counter that is never incremented.
increment_missing(i) == i

\* Line 350: iter_count += 1; the model stops counting at MaxIter.
increment(i) == IF i < MaxIter THEN i + 1 ELSE i

\* renormalise_iteratively, lines 348-350: the next round works on the
\* renormalised graph.
Update ==
    /\ pc = "update"
    /\ current_graph' = new_graph
    /\ iter_count' = increment(iter_count)
    /\ pc' = "while"
    /\ UNCHANGED <<entry, G, dest_exists, central_distance, sorted_non_centres,
                   nodes_to_boxes, new_graph, files, boxVars, notRen>>

NextDriver ==
    \/ DriverStart
    \/ WhileTest
    \/ SelectCentres
    \/ FindCentralDistance
    \/ AssignStart
    \/ AssignNode
    \/ Renormalise
    \/ Export
    \/ Update

SpecDriver == InitDriver /\ [][NextDriver]_vars

\* The driver is one sequential program: it keeps running while it can.
FairDriver == SpecDriver /\ WF_vars(NextDriver)

\* The positions inside a renormalisation round.
RoundPcs == {"method", "find_central_distance", "assign_nodes_to_boxes",
             "assign_loop", "export", "update"}

\* assign_nodes_to_boxes has returned and its result is still at hand.
AssignmentComplete ==
    \/ pc = "assign_loop" /\ sorted_non_centres = <<>>
    \/ pc = "export"

C5_Assignment ==
    (is_connected(current_graph) /\ centres # <<>>) =>
        /\ pc \notin {"TypeError", "KeyError", "IndexError"}
        /\ (pc = "assign_loop" /\ sorted_non_centres # <<>>) =>
               LET node == Head(sorted_non_centres)
               IN  /\ \E nb \in neighbors(current_graph, node) :
                          central_distance[nb] < central_distance[node]
                   /\ \A nb \in neighbors(current_graph, node) :
                          central_distance[nb] < central_distance[node]
                              => nodes_to_boxes[nb] # None
        /\ AssignmentComplete =>
               /\ DOMAIN nodes_to_boxes = Nodes(current_graph)
               /\ \A v \in Nodes(current_graph) :
                      nodes_to_boxes[v] \in 0 .. (Len(centres) - 1)
               /\ \A i \in 1 .. Len(centres) : nodes_to_boxes[centres[i]] = i - 1
               /\ \A v \in Nodes(current_graph) \ Range(centres) :
                      \E nb \in neighbors(current_graph, v) :
                          /\ central_distance[nb] < central_distance[v]
                          /\ nodes_to_boxes[nb] = nodes_to_boxes[v]

\* A non-centre between two centres took the box of the second centre
\* although the first centre is a neighbour of it as well.
C5_Witness ==
    /\ AssignmentComplete
    /\ is_connected(current_graph) /\ Len(centres) = 2
    /\ \E v \in Nodes(current_graph) \ Range(centres) :
           /\ nodes_to_boxes[v] = 1
           /\ \E nb \in neighbors(current_graph, v) : nodes_to_boxes[nb] = 0

\* find_central_distance has returned and its result is still at hand.
CentralDistanceKnown == pc \in {"assign_nodes_to_boxes", "assign_loop", "export"}

\* C6: for a non-empty centre list from which every node is reachable,
\* find_central_distance raises nothing and maps every node to 0 if it is a
\* centre and else to the least distance to a centre.
C6_CentralDistance ==
    MeetsContract(current_graph, centres) =>
        /\ pc # "TypeError"
        /\ CentralDistanceKnown =>
               /\ DOMAIN central_distance = Nodes(current_graph)
               /\ \A v \in Nodes(current_graph) :
                      central_distance[v] =
                          IF v \in Range(centres) THEN 0
                          ELSE Min({distances(current_graph, v, c) : c \in Range(centres)})

\* A node at central distance 1 for which a centre with a smaller index is
\* two steps away and, in another run, one for which a centre is unreachable.
C6_Witness ==
    /\ CentralDistanceKnown
    /\ MeetsContract(current_graph, centres)
    /\ \E v \in Nodes(current_graph) : \E c, d \in Range(centres) :
           /\ central_distance[v] = 1
           /\ c < d
           /\ distances(current_graph, v, c) = 2
           /\ distances(current_graph, v, d) = 1

\* C9: a round runs only on a graph of more than one node and the loop ends
\* only on a graph of at most one node; for a single-node input no round
\* runs and no graph is produced or written; when the driver ends for a
\* connected input, the current graph is a single node without edges.
C9_RoundIffSeveralNodes ==
    /\ pc \in RoundPcs => current_graph.n > 1
    /\ pc = "done" => current_graph.n <= 1
    /\ G.n = 1 => (pc \notin RoundPcs /\ files = {} /\ new_graph = NullGraph /\ iter_count <= 1)
    /\ (pc = "done" /\ is_connected(G)) => current_graph = [n |-> 1, E |-> {}]

\* The driver ended after two rounds on a connected graph of three nodes.
C9_Witness ==
    /\ pc = "done"
    /\ is_connected(G) /\ G.n = 3
    /\ iter_count = 3 /\ files = {1, 2}

\* The centre selection has just returned a list that breaks its contract.
ContractBroken ==
    \/ pc = "Exception"
    \/ /\ pc = "find_central_distance"
       /\ ~MeetsContract(current_graph, centres)

\* C10: for a connected input graph and a centre selection that keeps its
\* contract in every round, the driver eventually ends.
C10_Terminates ==
    (is_connected(G) /\ ~dest_exists) => <>(pc = "done" \/ ContractBroken)

\* The positions at which a round has ended with an exception.
ErrorPcs == {"Exception", "TypeError", "KeyError", "IndexError"}

\* C11: the file of round i is written before the centre selection of round
\* i+1 starts; the files are numbered 1, 2, ... without a gap, one per round
\* that has returned; at every moment the files are exactly those of the
\* rounds that have written their graph (while the rounds are counted; from
\* round MaxIter on the counter stands still and so does the last file).
C11_PersistedBeforeNextRound ==
    /\ iter_count < MaxIter =>
           files = 1 .. (IF pc = "update" THEN iter_count ELSE iter_count - 1)
    /\ iter_count = MaxIter =>
           /\ files \subseteq 1 .. MaxIter
           /\ 1 .. (MaxIter - 1) \subseteq files
           /\ pc = "update" => MaxIter \in files

\* The centre selection of the second round is about to start and the file
\* of the first round is there.
C11_Witness ==
    /\ pc = "method"
    /\ iter_count = 2
    /\ files = {1}

\* C12: when the destination folder exists at the call, the driver raises
\* ValueError before any round: no graph is copied, no centre is selected, no
\* file is written, and nothing runs after the error.
C12_ExistingDestination ==
    dest_exists =>
        /\ pc \in {"renormalise_iteratively", "ValueError"}
        /\ iter_count = 0
        /\ current_graph = NullGraph /\ new_graph = NullGraph
        /\ centres = <<>> /\ central_distance = <<>> /\ nodes_to_boxes = <<>>
        /\ files = {}

\* The call for a graph that would need a round has ended with ValueError.
C12_Witness ==
    /\ pc = "ValueError"
    /\ dest_exists
    /\ G.n > 1

\* C13: a round that ends with an exception, in the centre selection, in
\* find_central_distance or in assign_nodes_to_boxes, has written no file
\* for its round and leaves the files of the rounds before; the file of a
\* round is written by one step only, the export, which comes after
\* renormalise_graph has returned; nothing is written by another step.
C13_RoundAtomic ==
    /\ [](iter_count < MaxIter =>
            /\ pc \in ErrorPcs => files = 1 .. (iter_count - 1)
            /\ iter_count \in files => pc = "update")
    /\ [][files' # files =>
            /\ pc = "export" /\ pc' = "update"
            /\ new_graph = renormalise_graph(current_graph, boxes, nodes_to_boxes)
            /\ files' = files \cup {iter_count}]_vars
    /\ [][pc' \in ErrorPcs => files' = files]_vars

\* The second round has ended with an exception in assign_nodes_to_boxes:
\* there is the file of the first round and no other.
C13_Witness ==
    /\ pc \in {"IndexError", "KeyError"}
    /\ iter_count = 2
    /\ files = {1}

\* C14: without a centre find_central_distance raises (TypeError) and returns
\* nothing; a non-centre that has no neighbour of strictly smaller central
\* distance makes assign_nodes_to_boxes raise (IndexError) without giving the
\* node a box; neither function returns in these cases and no step follows
\* the exception.
C14_PreconditionViolationsRaise ==
    /\ [](CentralDistanceKnown => centres # <<>>)
    /\ [](AssignmentComplete =>
            \A v \in Nodes(current_graph) \ Range(centres) :
                \E nb \in neighbors(current_graph, v) :
                    central_distance[nb] < central_distance[v])
    /\ [][(pc = "find_central_distance" /\ centres = <<>>) =>
            (pc' = "TypeError" /\ UNCHANGED <<central_distance, nodes_to_boxes>>)]_vars
    /\ [][(/\ pc = "assign_loop"
           /\ sorted_non_centres # <<>>
           /\ \A nb \in neighbors(current_graph, Head(sorted_non_centres)) :
                  central_distance[nb] >= central_distance[Head(sorted_non_centres)]) =>
            (pc' = "IndexError" /\ UNCHANGED nodes_to_boxes)]_vars
    /\ [][pc \notin ErrorPcs \cup {"ValueError"}]_vars

\* assign_nodes_to_boxes has raised at a node no centre can be reached from,
\* after a node of the component of the centre got its box.
C14_Witness ==
    /\ pc = "IndexError"
    /\ centres # <<>>
    /\ central_distance[Head(sorted_non_centres)] = Inf
    /\ \E v \in Nodes(current_graph) \ Range(centres) : nodes_to_boxes[v] # None

\* C15: greedy_box_covering and random_sequential, called with lB <= 0 on a
\* graph that has a node, end with an error and return no covering.
C15_DegenerateDiameterRejected ==
    (lB <= 0 /\ G.n > 0 /\ entry \in {"greedy_box_covering", "random_sequential"}) =>
        pc # "done"

\* C16: greedy_box_covering, random_sequential and the driver, given a graph
\* without a node, end with an error and do not return or finish normally.
C16_EmptyGraphRejected ==
    (/\ G.n = 0
     /\ entry \in {"greedy_box_covering", "random_sequential", "renormalise_iteratively"}) =>
        pc # "done"

\* C17: for a graph with a node, lB >= 1 and any order, the number of boxes
\* greedy_box_covering returns is the largest colour plus one and the number
\* of different colours, and the colours in use are exactly 0 .. NB-1.
C17_BoxCount ==
    (pc = "done" /\ entry = "greedy_box_covering" /\ G.n >= 1 /\ lB >= 1) =>
        LET used == {colouring[v] : v \in Nodes(G)}
        IN  /\ \A c \in used : c <= NB - 1
            /\ NB - 1 \in used
            /\ NB = Cardinality(used)
            /\ used = 0 .. (NB - 1)

\* Three nodes in two boxes, coloured in an order that is not ascending.
C17_Witness ==
    /\ pc = "done" /\ entry = "greedy_box_covering"
    /\ G.n = 3 /\ lB = 2
    /\ NB = 2
    /\ colouring[0] = 1

\* The sum of the edge betweenness centralities of those of the first k
\* edges (by edge id) that are in F.
RECURSIVE EbcSum(_, _, _)
EbcSum(F, edges, k) ==
    IF k = 0 THEN 0
    ELSE EbcSum(F, edges, k - 1) + (IF edges[k] \in F THEN ebcs[k] ELSE 0)

\* The edges F of G join the ends of every edge of G: F has the connected
\* components of G.
JoinsAll(F) ==
    \A e \in G.E \ F : distances([n |-> G.n, E |-> F], e[1], e[2]) # Inf

\* F is the edge set of a spanning forest of G: edges of G that keep the
\* connected components of G, and as few as that takes, the number of the
\* nodes less the number of the components.
IsSpanningForest(F) ==
    /\ F \subseteq G.E
    /\ JoinsAll(F)
    /\ Cardinality(F) + Cardinality(Components(G)) = G.n

SpanningForests == {F \in SUBSET G.E : IsSpanningForest(F)}

\* C18: the skeleton find_skel returns is a spanning forest of the largest
\* total edge betweenness centrality: it is a spanning forest, and no set
\* of as many edges (the size of every spanning forest) and of a larger sum
\* is one.
C18_MaximumWeight ==
    pc = "done" =>
        LET edges == es(G.E)
            weight == EbcSum(H.E, edges, Len(edges))
            size == Cardinality(H.E)
        IN  /\ IsSpanningForest(H.E)
            /\ \A F \in SUBSET G.E :
                   (Cardinality(F) = size /\ EbcSum(F, edges, Len(edges)) > weight)
                       => ~JoinsAll(F)

\* find_skel returned for a graph with a spanning forest of a smaller sum
\* that holds the edge of the first edge id, which the skeleton leaves out.
C18_Witness ==
    /\ pc = "done"
    /\ G.E # {}
    /\ LET edges == es(G.E)
       IN  /\ edges[1] \notin H.E
           /\ \E F \in SpanningForests :
                  /\ edges[1] \in F
                  /\ EbcSum(F, edges, Len(edges)) < EbcSum(H.E, edges, Len(edges))

\* The path 0 - 1 - 2.
Path3 == [n |-> 3, E |-> {<<0, 1>>, <<1, 2>>}]

\* C19: greedy_colouring takes the nodes in the order given, in ascending
\* node id when none is given; each step colours the first node left and no
\* other: 0 when no neighbour of it is coloured, else the smallest
\* non-negative integer no coloured neighbour has, so a colouring has one
\* successor only. For the path 0 - 1 - 2 with lB = 2 and the order 0, 1, 2
\* greedy_box_covering returns the colours 0, 0, 1 and 2 boxes.
C19_FirstFit ==
    /\ [][pc = "greedy_colouring" =>
            /\ pc' = "colour_loop"
            /\ node_order' = IF node_order = <<>>
                             THEN [i \in 1 .. dual_G.n |-> i - 1]
                             ELSE node_order]_vars
    /\ [][(pc = "colour_loop" /\ node_order # <<>>) =>
            LET node == Head(node_order)
                used == {colouring[x] : x \in
                            {y \in Nodes(dual_G) :
                                /\ <<y, node>> \in dual_G.E \/ <<node, y>> \in dual_G.E
                                /\ colouring[y] # None}}
            IN  /\ node_order' = Tail(node_order)
                /\ colouring'[node] \in Nat \ used
                /\ \A c \in 0 .. (colouring'[node] - 1) : c \in used
                /\ used = {} => colouring'[node] = 0
                /\ \A v \in Nodes(dual_G) \ {node} : colouring'[v] = colouring[v]]_vars
    /\ (/\ entry = "greedy_box_covering"
        /\ G = Path3 /\ lB = 2
        /\ node_order \in {<<>>, <<0, 1, 2>>}) =>
            [](pc = "done" =>
                 /\ DOMAIN colouring = {0, 1, 2}
                 /\ colouring[0] = 0 /\ colouring[1] = 0 /\ colouring[2] = 1
                 /\ NB = 2)

\* greedy_box_covering returned for the path 0 - 1 - 2 with lB = 2: the two
\* ends, two steps apart, are the one edge of the dual graph and the last
\* node took the colour 1.
C19_Witness ==
    /\ pc = "done" /\ entry = "greedy_box_covering"
    /\ G = Path3 /\ lB = 2
    /\ dual_G.E = {<<0, 2>>}
    /\ colouring[0] = 0 /\ colouring[1] = 0 /\ colouring[2] = 1

\* C20: the graph make_dual_graph returns has the nodes of G, no self-loop,
\* and an edge between two different nodes exactly when their distance in G
\* is at least lB; two nodes without a path between them are adjacent.
C20_DualGraph ==
    (entry = "greedy_box_covering" /\ pc # "greedy_box_covering") =>
        /\ dual_G.n = G.n
        /\ \A e \in dual_G.E :
               e[1] \in Nodes(G) /\ e[2] \in Nodes(G) /\ e[1] < e[2]
        /\ \A u, v \in Nodes(G) :
               u < v => (<<u, v>> \in dual_G.E <=> distances(G, u, v) >= lB)
        /\ \A u, v \in Nodes(G) :
               (u < v /\ distances(G, u, v) = Inf) => <<u, v>> \in dual_G.E

\* The dual graph for lB = 2 of an edge beside a node on its own: the two
\* pairs without a path are its edges, the adjacent pair is not.
C20_Witness ==
    /\ pc = "greedy_colouring" /\ entry = "greedy_box_covering"
    /\ lB = 2
    /\ G = [n |-> 3, E |-> {<<0, 1>>}]
    /\ dual_G = [n |-> 3, E |-> {<<0, 2>>, <<1, 2>>}]

\* The degree of the node v of G among the nodes S.
DegreeWithin(v, S) ==
    Cardinality({e \in G.E : (e[1] = v /\ e[2] \in S) \/ (e[2] = v /\ e[1] \in S)})

\* C21: smallest_last returns every node of G once, and the node at each
\* position has the least degree in the subgraph of G induced by the nodes
\* up to that position, and the lowest node id among the nodes of that
\* degree there.
C21_SmallestLast ==
    (pc = "done" /\ entry = "smallest_last") =>
        /\ Len(ordering) = G.n
        /\ Range(ordering) = Nodes(G)
        /\ \A i \in 1 .. Len(ordering) :
               LET S == {ordering[k] : k \in 1 .. i}
               IN  \A u \in S :
                       \/ DegreeWithin(ordering[i], S) < DegreeWithin(u, S)
                       \/ /\ DegreeWithin(ordering[i], S) = DegreeWithin(u, S)
                          /\ ordering[i] <= u

\* smallest_last returned for a graph of four nodes in which the node of the
\* least degree is not the node 0, and a tie was broken.
C21_Witness ==
    /\ pc = "done" /\ entry = "smallest_last"
    /\ G.n = 4
    /\ ordering[4] # 0
    /\ \E i \in 2 .. 4 : \E u \in {ordering[k] : k \in 1 .. (i - 1)} :
           LET S == {ordering[k] : k \in 1 .. i}
           IN  DegreeWithin(u, S) = DegreeWithin(ordering[i], S)

C23_NearestCentre ==
    (/\ pc \in {"assign_loop", "export"}
     /\ is_connected(current_graph)
     /\ centres # <<>>) =>
        \A v \in Nodes(current_graph) :
            nodes_to_boxes[v] # None =>
                LET own == distances(current_graph, v, centres[nodes_to_boxes[v] + 1])
                IN  /\ own = central_distance[v]
                    /\ \A c \in Range(centres) : own <= distances(current_graph, v, c)

\* A node with two centres at distance 1 went to the box of the second one,
\* which is not its neighbour of the lowest id.
C23_Witness ==
    /\ AssignmentComplete
    /\ is_connected(current_graph)
    /\ Len(centres) = 2 /\ centres[1] < centres[2]
    /\ \E v \in Nodes(current_graph) \ Range(centres) :
           /\ distances(current_graph, v, centres[1]) = 1
           /\ distances(current_graph, v, centres[2]) = 1
           /\ nodes_to_boxes[v] = 1

\* C24: the graph a round returns has one node per box and per centre of the
\* round, not more nodes than the graph of the round, and fewer exactly when
\* a box of the round holds two or more nodes; the graph the next round
\* works on is never larger than that of the round before.
C24_NodeCount ==
    /\ [](pc = "export" =>
            /\ new_graph.n = Len(boxes) /\ new_graph.n = Len(centres)
            /\ new_graph.n <= current_graph.n
            /\ new_graph.n < current_graph.n <=>
                   \E i \in 1 .. Len(boxes) : Cardinality(boxes[i]) >= 2)
    /\ [][pc # "renormalise_iteratively" => current_graph'.n <= current_graph.n]_vars

\* A round on three nodes ended with a box of two nodes and a box of one.
C24_Witness ==
    /\ pc = "export"
    /\ current_graph.n = 3 /\ new_graph.n = 2
    /\ \E i, j \in 1 .. Len(boxes) :
           Cardinality(boxes[i]) = 2 /\ Cardinality(boxes[j]) = 1

\* The loop of find_skel without its early exit: every pair of the list s is
\* visited and its edge is added when h has no path between its ends.
RECURSIVE VisitAll(_, _)
VisitAll(h, s) ==
    IF s = <<>> THEN h
    ELSE LET e == Head(s)[1]
         IN  VisitAll(IF distances(h, e[1], e[2]) = Inf
                      THEN [h EXCEPT !.E = @ \cup {e}]
                      ELSE h,
                      Tail(s))

\* C25: the graph find_skel returns is the graph the loop yields when it
\* visits every edge of the sorted list: at the return no edge left in the
\* list would be added, and visiting them all leaves the graph as it is.
C25_EarlyExit ==
    (pc = "done" /\ entry = "find_skel") =>
        /\ \A i \in 1 .. Len(edges_to_ebcs) :
               distances(H, edges_to_ebcs[i][1][1], edges_to_ebcs[i][1][2]) # Inf
        /\ VisitAll(H, edges_to_ebcs) = H
        /\ VisitAll([n |-> G.n, E |-> {}], sort_desc(pair_edges(G, ebcs))) = H

\* find_skel returned a tree on four nodes with an edge left in its list.
C25_Witness ==
    /\ pc = "done" /\ entry = "find_skel"
    /\ G.n = 4
    /\ is_connected(H)
    /\ Len(edges_to_ebcs) = 1

\* The operations that take a graph and work on it: the renormalisation
\* driver with its rounds, smallest_last and find_skel.
InitCore == InitDriver \/ InitOrder \/ InitSkel

NextCore ==
    \/ NextDriver
    \/ NextOrder
    \/ NextSkel

SpecCore == InitCore /\ [][NextCore]_vars

\* C26: no step of the driver, of a round, of smallest_last or of find_skel
\* changes the graph G of the caller, and from the centre selection to the
\* export no step of a round changes the graph the round was given; what
\* smallest_last and find_skel remove, they remove from H.
C26_InputUntouched ==
    /\ [][G' = G]_vars
    /\ [][(pc \in RoundPcs /\ pc # "update") => current_graph' = current_graph]_vars

\* smallest_last returned: its working copy has no node left and the graph
\* of the caller has its four nodes and its edges.
C26_Witness ==
    /\ pc = "done" /\ entry = "smallest_last"
    /\ H = NullGraph
    /\ G.n = 4 /\ G.E # {}

\* C27: for lB >= 1 two nodes random_sequential has put in one box are at
\* most 2 * floor((lB - 1) / 2) steps apart in G, which is less than lB.
C27_RandomSequentialDiameter ==
    (entry = "random_sequential" /\ pc \in {"rs_loop", "done"} /\ lB >= 1) =>
        \A i \in 1 .. Len(boxes) : \A u, v \in boxes[i] :
            /\ distances(G, u, v) <= 2 * ((lB - 1) \div 2)
            /\ distances(G, u, v) < lB

\* random_sequential returned for lB = 3 a box with two nodes two steps
\* apart, the neighbours of its centre.
C27_Witness ==
    /\ pc = "done" /\ entry = "random_sequential"
    /\ lB = 3
    /\ \E i \in 1 .. Len(boxes) : \E u, v \in boxes[i] :
           /\ distances(G, u, v) = 2
           /\ centres[i] \notin {u, v}

\* C28: in what random_sequential has built, the centre of every index is a
\* member of the box of that index.
C28_CentreInOwnBox ==
    (entry = "random_sequential" /\ pc \in {"rs_loop", "done"}) =>
        \A i \in 1 .. Len(centres) : centres[i] \in boxes[i]

\* C28, amended: there is one centre per box; every member of a box is
\* within the radius rB of the centre of its index; a centre is a member of
\* the box of its index or, when it was covered before it was drawn, of a
\* box of a lower index.
C28_CentreInOwnOrEarlierBox ==
    (entry = "random_sequential" /\ pc \in {"rs_loop", "done"}) =>
        /\ Len(centres) = Len(boxes)
        /\ \A i \in 1 .. Len(centres) :
               /\ boxes[i] # {}
               /\ \A v \in boxes[i] : distances(G, centres[i], v) <= rB
               /\ \/ centres[i] \in boxes[i]
                  \/ \E j \in 1 .. (i - 1) : centres[i] \in boxes[j]

\* random_sequential returned a centre that is a member of the box before
\* its own.
C28_Witness ==
    /\ pc = "done" /\ entry = "random_sequential"
    /\ Len(centres) = 2
    /\ centres[2] \in boxes[1]
    /\ centres[2] \notin boxes[2]

\* The nodes that have the box id b so far.
BoxSoFar(b) == {v \in Nodes(current_graph) : nodes_to_boxes[v] = b}

\* The nodes S induce a connected subgraph of the graph of the round: every
\* node of S is reached from one of them along edges inside S.
InducesConnected(S) ==
    LET sub == [n |-> current_graph.n,
                E |-> {e \in current_graph.E : e[1] \in S /\ e[2] \in S}]
    IN  \A v \in S : distances(sub, CHOOSE u \in S : TRUE, v) # Inf

\* C29: on a connected graph with a non-empty list of distinct centres,
\* whatever is drawn, every box holds its centre and its nodes induce a
\* connected subgraph, while assign_nodes_to_boxes fills the boxes and in
\* the list find_boxes makes of them, which has one non-empty box per centre.
C29_BoxesConnected ==
    (/\ pc \in {"assign_loop", "export"}
     /\ centres # <<>>
     /\ is_connected(current_graph)) =>
        /\ pc = "assign_loop" =>
               \A i \in 1 .. Len(centres) :
                   /\ centres[i] \in BoxSoFar(i - 1)
                   /\ InducesConnected(BoxSoFar(i - 1))
        /\ pc = "export" =>
               /\ Len(boxes) = Len(centres)
               /\ \A i \in 1 .. Len(boxes) :
                      /\ boxes[i] # {}
                      /\ centres[i] \in boxes[i]
                      /\ InducesConnected(boxes[i])

\* The box of a centre at the end of a path of three nodes holds the whole
\* path.
C29_Witness ==
    /\ pc = "export"
    /\ is_connected(current_graph) /\ current_graph.n = 3
    /\ Cardinality(current_graph.E) = 2
    /\ Len(centres) = 1
    /\ Cardinality(neighbors(current_graph, centres[1])) = 1
    /\ boxes[1] = {0, 1, 2}

\* C30: the graph a round makes of a connected graph is connected, and for a
\* connected input every graph the loop of the driver tests, the input first
\* and then the result of each round, is connected.
C30_ConnectivityPreserved ==
    /\ (pc = "export" /\ is_connected(current_graph)) =>
           is_connected(new_graph)
    /\ (pc = "while" /\ is_connected(G)) =>
           is_connected(current_graph)

\* The second round is about to be decided on the two connected nodes the
\* first round made of a triangle.
C30_Witness ==
    /\ pc = "while"
    /\ iter_count = 2
    /\ G.n = 3 /\ Cardinality(G.E) = 3
    /\ current_graph = [n |-> 2, E |-> {<<0, 1>>}]

==========================================================================
